---- MODULE Spec2Model ----
(***************************************************************************)
(* Smart Alarm: the GUI controller (smart_alarm_app.py) with its worker    *)
(* threads and alarm episodes, and the wake-time arithmetic of             *)
(* smart_alarm.py.                                                         *)
(*                                                                         *)
(* Threads.  The Tk main thread runs the button handler, the callbacks     *)
(* queued with after(0, ...) and the log drain, one handler at a time.     *)
(* Every _start_program creates one worker thread running _run_worker;     *)
(* a worker is modelled statement group by statement group (pc).           *)
(*                                                                         *)
(* Time.  Every instant the program holds (next_poll_at, the arrival       *)
(* deadline, the snapshot's "now") is kept as its distance in seconds      *)
(* from the present: Tick lets TickSeconds seconds pass and moves every    *)
(* stored instant by that much.  An instant in the past is clipped where   *)
(* the code only ever compares it with the present.  Instants are whole    *)
(* seconds.  The threads run on a day on which the zone's offset does not  *)
(* change, so that isoformat and fromisoformat keep an instant as it is;   *)
(* the functions on their own (FunctionSpec) are called with wall-clock    *)
(* readings of the day summer time begins.                                 *)
(*                                                                         *)
(* Log.  self.log puts a line on _log_queue, which only the widget drain   *)
(* reads: logged holds the lines the step just taken has put.              *)
(*                                                                         *)
(* History.  presses counts the button presses; a queued callback carries  *)
(* the worker that queued it; stop_issued, alarm_stopped, failed_ago,      *)
(* episodes, played, ended_by and last_eta record what has happened to a   *)
(* worker.                                                                 *)
(* None of them is read by an action's guard, except the bound on presses. *)
(***************************************************************************)
EXTENDS Integers, Sequences, FiniteSets, TLC

\* ------------------------------------------------------------- bounds
MaxPresses == 3      \* presses of the primary button in one behaviour
TickSeconds == 5     \* seconds that pass in one Tick
MaxFetchTicks == 1   \* longest ETA fetch, in ticks
MaxRemaining == 130  \* seconds to the wake time the sleep rule is tried on

\* ------------------------------------------------------------- constants
repeats_off_by_one == 10 + 1
repeats == 10

Workers == 1 .. MaxPresses
NoThread == 0
NoProc == <<0, 0>>

Max(a, b) == IF a >= b THEN a ELSE b
Min(a, b) == IF a <= b THEN a ELSE b

\* The form's contents when the button is pressed.  arrival is the deadline
\* in seconds from the moment of the press.
BaseConfig ==
  [ numbers_ok |-> TRUE, required_ok |-> TRUE, arrival_ok |-> TRUE,
    arrival |-> 10, prep_min |-> 0, buffer_min |-> 0, sound_ok |-> TRUE,
    coarse_poll_s |-> 5, fine_poll_s |-> 5, fine_window_min |-> 1 ]

Configs ==
  { BaseConfig,
    [BaseConfig EXCEPT !.arrival_ok = FALSE],
    [BaseConfig EXCEPT !.sound_ok = FALSE, !.arrival = 65, !.prep_min = 1,
                       !.coarse_poll_s = 20, !.fine_window_min = 0],
    [BaseConfig EXCEPT !.numbers_ok = FALSE],
    [BaseConfig EXCEPT !.required_ok = FALSE] }

\* Travel times the ETA provider may answer, in seconds.
ETAs == {0, 5}

\* get_eta_seconds answers or raises within this many seconds.
MaxFetchSeconds == MaxFetchTicks * TickSeconds

VARIABLES
  state_var,            \* "Idle" | "Running" | "Ringing"
  button_var,           \* label of the primary button
  worker_thread,        \* _worker_thread: the thread created last, or NoThread
  stop_program_event,   \* threading.Event
  stop_alarm_event,     \* threading.Event
  current_alarm_proc,   \* _current_alarm_proc: a process or NoProc
  alive,                \* afplay processes that are running
  after_queue,          \* callbacks queued with after(0, ...), oldest first
  logged,               \* the lines the last step put on _log_queue
  presses,              \* button presses so far
  pc,                   \* per worker: where its thread is
  args,                 \* per worker: the arguments of _run_worker
  arrival,              \* per worker: _parse_arrival(arrival_iso), from now
  next_poll_at,         \* per worker: next_poll_at, from now, 0 when past
  snap_now,             \* per worker: compute_wake_time's now, from now
  target_dt,            \* per worker: the poll's wake time, from now, 0 when past
  wake_now,             \* per worker: info["wake_now"] of its last poll
  i,                    \* per worker: loop index of _ring_alarm_gui
  \* history
  stop_issued,          \* per worker: _stop_program ran while it was the run
  alarm_stopped,        \* per worker: _stop_alarm ran during its episode
  failed_ago,           \* per worker: seconds since its fetch failed, -1 if it did not
  episodes,             \* per worker: alarm episodes it has started
  played,               \* per worker: playbacks its episode has started
  ended_by,             \* per worker: how its episode returned
  last_eta,             \* per worker: eta_seconds of its previous poll, -1 if none
  \* the functions on their own
  call                  \* a call of compute_wake_time or of the sleep rule

vars == << state_var, button_var, worker_thread, stop_program_event,
           stop_alarm_event, current_alarm_proc, alive, after_queue, logged,
           presses, pc, args, arrival, next_poll_at, snap_now, target_dt,
           wake_now, i, stop_issued, alarm_stopped, failed_ago, episodes,
           played, ended_by, last_eta, call >>

main_vars == << state_var, button_var, worker_thread, stop_program_event,
                stop_alarm_event, presses >>
worker_vars == << pc, args, arrival, next_poll_at, snap_now, target_dt,
                  wake_now, i >>
history_vars == << stop_issued, alarm_stopped, failed_ago, episodes, played,
                   ended_by, last_eta >>

\* ------------------------------------------------------------- the time zone

\* TZ = ZoneInfo("Europe/Athens") on the day summer time begins.  A datetime
\* in TZ is its wall-clock reading, in seconds from that day's local midnight;
\* an instant is in seconds from that day's 00:00 UTC.  The clocks go from
\* 03:00 EET to 04:00 EEST at 01:00 UTC.
EET == 7200
EEST == 10800
SummerWallFrom == 14400
SummerInstantFrom == 3600

\* datetime.utcoffset of a reading in TZ (fold 0: a reading the jump skips
\* still has the winter offset).
utcoffset(wall) == IF wall < SummerWallFrom THEN EET ELSE EEST

\* datetime.isoformat of a reading in TZ: the reading with its offset.
isoformat(wall) == << wall, utcoffset(wall) >>

\* The instant an ISO string with an offset names.
Instant(iso) == iso[1] - iso[2]

\* datetime.fromisoformat(iso).astimezone(TZ): the reading in TZ of the
\* instant the string names.
astimezone(iso) ==
  Instant(iso) + (IF Instant(iso) < SummerInstantFrom THEN EET ELSE EEST)

\* _parse_arrival of a string with an offset.
parse_arrival(arrival_iso) == astimezone(arrival_iso)

\* ------------------------------------------------------------- pure parts

\* compute_wake_time after the fetch: the snapshot from the parsed deadline,
\* the travel time and the clock reading taken before the fetch.
compute_wake_time(arrival_t, prep_min, buffer_min, eta_s, now) ==
  LET depart_latest == arrival_t - eta_s - buffer_min * 60
      wake_time == depart_latest - prep_min * 60
  IN  [ now |-> now, arrival |-> arrival_t, eta_seconds |-> eta_s,
        depart_latest |-> depart_latest, wake_time |-> wake_time,
        wake_now |-> (now >= wake_time) ]

\* The worker's own test for ringing, on its own clock reading.
WakeReachedReversed(now_t, target_t) == now_t <= target_t
WakeReached(now_t, target_t) == now_t >= target_t

\* The sleep before the next poll.
NextSleepCoarseNoFloor(remaining_s, coarse_poll_s, fine_poll_s, fine_window_min) ==
  IF remaining_s <= fine_window_min * 60
    THEN Min(fine_poll_s, Max(15, remaining_s \div 4))
    ELSE coarse_poll_s
NextSleepWindowReversed(remaining_s, coarse_poll_s, fine_poll_s, fine_window_min) ==
  IF remaining_s >= fine_window_min * 60
    THEN Min(fine_poll_s, Max(15, remaining_s \div 4))
    ELSE Max(15, coarse_poll_s)
NextSleepNoWindow(remaining_s, coarse_poll_s, fine_poll_s, fine_window_min) ==
  Max(15, coarse_poll_s)
NextSleep(remaining_s, coarse_poll_s, fine_poll_s, fine_window_min) ==
  IF remaining_s <= fine_window_min * 60
    THEN Min(fine_poll_s, Max(15, remaining_s \div 4))
    ELSE Max(15, coarse_poll_s)

\* The delay before the retry after a failed fetch.
RetryDelayNoFloor(coarse_poll_s) == coarse_poll_s
RetryDelay(coarse_poll_s) == Max(15, coarse_poll_s)

\* ------------------------------------------------------------- helpers

\* self.log(message), once per line
Log(lines) == logged' = lines
NoLog == logged' = << >>

\* self.after(0, lambda: self._set_state(state, button_text)), called by worker w
After(cbs) == after_queue' = after_queue \o cbs
Callback(w, s, b) == [by |-> w, state |-> s, button |-> b]
ToIdleStaysRinging(w) == Callback(w, "Ringing", "Stop Alarm")
ToIdle(w) == Callback(w, "Idle", "Run Program")
ToRinging(w) == Callback(w, "Ringing", "Stop Alarm")

\* The worker is in its polling loop: it still reads the clock.
Polling(w) == pc[w] \in {"loop", "fetch", "decide"}

\* A deadline further in the past than this compares with every clock reading
\* of a poll as this one does.
ArrivalFloor(a) == (a.prep_min + a.buffer_min) * 60 - MaxFetchSeconds

InEpisode(w) == pc[w] \in {"ring", "rep", "play", "end"}
Active(w) == pc[w] \notin {"none", "done"}

\* No function is being called on its own.
NoCall == [fn |-> "none", args |-> << >>, returned |-> FALSE, result |-> << >>]

\* ------------------------------------------------------------- initial state

IdleProgram ==
  /\ state_var = "Idle"
  /\ button_var = "Run Program"
  /\ worker_thread = NoThread
  /\ stop_program_event = FALSE
  /\ stop_alarm_event = FALSE
  /\ current_alarm_proc = NoProc
  /\ alive = {}
  /\ after_queue = << >>
  /\ logged = << >>
  /\ presses = 0
  /\ pc = [w \in Workers |-> "none"]
  /\ args = [w \in Workers |-> BaseConfig]
  /\ arrival = [w \in Workers |-> 0]
  /\ next_poll_at = [w \in Workers |-> 0]
  /\ snap_now = [w \in Workers |-> 0]
  /\ target_dt = [w \in Workers |-> 0]
  /\ wake_now = [w \in Workers |-> FALSE]
  /\ i = [w \in Workers |-> 0]
  /\ stop_issued = [w \in Workers |-> FALSE]
  /\ alarm_stopped = [w \in Workers |-> FALSE]
  /\ failed_ago = [w \in Workers |-> -1]
  /\ episodes = [w \in Workers |-> 0]
  /\ played = [w \in Workers |-> 0]
  /\ ended_by = [w \in Workers |-> "none"]
  /\ last_eta = [w \in Workers |-> -1]

Init ==
  /\ IdleProgram
  /\ call = NoCall

\* ------------------------------------------------------------- main thread

\* _set_state
SetState(s, b) ==
  /\ state_var' = s
  /\ button_var' = b

\* Popen.terminate, then wait(timeout=0.5), then kill: the process is gone.
TerminateNothing(running, proc) == running
Terminate(running, proc) == running \ {proc}

\* _on_primary_button in state Idle: _start_program with the form's contents.
StartProgram(cfg) ==
  /\ state_var = "Idle"
  /\ presses < MaxPresses
  /\ presses' = presses + 1
  /\ IF ~cfg.numbers_ok \/ ~cfg.required_ok
       THEN \* messagebox.showerror, return
            /\ NoLog
            /\ UNCHANGED << state_var, button_var, worker_thread, stop_program_event, stop_alarm_event >>
            /\ UNCHANGED << current_alarm_proc, alive, after_queue >>
            /\ UNCHANGED worker_vars
            /\ UNCHANGED history_vars
       ELSE LET w == worker_thread + 1 IN
            /\ stop_program_event' = FALSE
            /\ stop_alarm_event' = FALSE
            /\ worker_thread' = w
            /\ pc' = [pc EXCEPT ![w] = "loop"]
            /\ args' = [args EXCEPT ![w] = cfg]
            /\ arrival' = [arrival EXCEPT ![w] = cfg.arrival]
            /\ next_poll_at' = [next_poll_at EXCEPT ![w] = 0]
            /\ SetState("Running", "Stop Program")
            /\ Log(<< "Program started." >>)
            /\ UNCHANGED << current_alarm_proc, alive, after_queue >>
            /\ UNCHANGED << snap_now, target_dt, wake_now, i >>
            /\ UNCHANGED history_vars
  /\ UNCHANGED call

\* _on_primary_button in state Running: _stop_program.
StopProgram ==
  /\ state_var = "Running"
  /\ presses < MaxPresses
  /\ presses' = presses + 1
  /\ stop_program_event' = TRUE
  /\ SetState("Idle", "Run Program")
  /\ Log(<< "Program stopped." >>)
  /\ stop_issued' = [w \in Workers |->
                       stop_issued[w] \/ (w = worker_thread /\ Active(w))]
  /\ UNCHANGED << worker_thread, stop_alarm_event, current_alarm_proc, alive,
                  after_queue >>
  /\ UNCHANGED worker_vars
  /\ UNCHANGED << alarm_stopped, failed_ago, episodes, played, ended_by, last_eta >>
  /\ UNCHANGED call

\* _on_primary_button in state Ringing: _stop_alarm.
StopAlarm ==
  /\ state_var = "Ringing"
  /\ presses < MaxPresses
  /\ presses' = presses + 1
  /\ stop_alarm_event' = TRUE
  /\ alive' = IF current_alarm_proc # NoProc /\ current_alarm_proc \in alive
                THEN Terminate(alive, current_alarm_proc)
                ELSE alive
  /\ current_alarm_proc' = NoProc
  /\ Log(<< "Alarm stopped." >>)
  /\ SetState("Idle", "Run Program")
  /\ alarm_stopped' = [w \in Workers |-> alarm_stopped[w] \/ InEpisode(w)]
  /\ UNCHANGED << worker_thread, stop_program_event, after_queue >>
  /\ UNCHANGED worker_vars
  /\ UNCHANGED << stop_issued, failed_ago, episodes, played, ended_by, last_eta >>
  /\ UNCHANGED call

\* The Tk main loop runs the oldest callback queued with after(0, ...).
AfterCallback ==
  /\ after_queue # << >>
  /\ SetState(Head(after_queue).state, Head(after_queue).button)
  /\ after_queue' = Tail(after_queue)
  /\ NoLog
  /\ UNCHANGED << worker_thread, stop_program_event, stop_alarm_event, current_alarm_proc, alive, presses >>
  /\ UNCHANGED worker_vars
  /\ UNCHANGED history_vars
  /\ UNCHANGED call

\* ------------------------------------------------------------- environment

\* failed_ago counts up to here.
MaxCoarse == CHOOSE m \in {c.coarse_poll_s : c \in Configs} :
               \A c \in Configs : c.coarse_poll_s <= m
AgoCap == Max(15, MaxCoarse)

\* TickSeconds seconds pass.  A fetch lasts at most MaxFetchSeconds.
Tick ==
  /\ \A w \in Workers : pc[w] = "fetch" => snap_now[w] > -MaxFetchSeconds
  /\ next_poll_at' = [w \in Workers |-> Max(0, next_poll_at[w] - TickSeconds)]
  /\ arrival' = [w \in Workers |->
                   IF Polling(w)
                     THEN Max(ArrivalFloor(args[w]), arrival[w] - TickSeconds)
                     ELSE arrival[w]]
  /\ snap_now' = [w \in Workers |->
                    IF pc[w] = "fetch" THEN snap_now[w] - TickSeconds
                    ELSE snap_now[w]]
  /\ target_dt' = [w \in Workers |-> Max(0, target_dt[w] - TickSeconds)]
  /\ failed_ago' = [w \in Workers |->
                      IF failed_ago[w] >= 0
                        THEN Min(AgoCap, failed_ago[w] + TickSeconds)
                        ELSE failed_ago[w]]
  /\ NoLog
  /\ UNCHANGED << main_vars, current_alarm_proc, alive, after_queue >>
  /\ UNCHANGED << pc, args, wake_now, i >>
  /\ UNCHANGED << stop_issued, alarm_stopped, episodes, played, ended_by, last_eta >>
  /\ UNCHANGED call

\* An afplay process plays the file to its end and exits.
PlaybackEnds(proc) ==
  /\ proc \in alive
  /\ alive' = alive \ {proc}
  /\ NoLog
  /\ UNCHANGED << main_vars, current_alarm_proc, after_queue >>
  /\ UNCHANGED worker_vars
  /\ UNCHANGED history_vars
  /\ UNCHANGED call

\* ------------------------------------------------------------- worker thread

\* The worker leaves the while loop for good: the loop's locals are dead.
LeaveLoop(w, to) ==
  /\ pc' = [pc EXCEPT ![w] = to]
  /\ arrival' = [arrival EXCEPT ![w] = 0]
  /\ next_poll_at' = [next_poll_at EXCEPT ![w] = 0]
  /\ snap_now' = [snap_now EXCEPT ![w] = 0]
  /\ wake_now' = [wake_now EXCEPT ![w] = FALSE]
  /\ failed_ago' = [failed_ago EXCEPT ![w] = -1]
  /\ last_eta' = [last_eta EXCEPT ![w] = -1]

\* The except branch of the poll: log, retry later, continue.
PollFailed(w) ==
  /\ Log(<< "API error" >>)
  /\ next_poll_at' = [next_poll_at EXCEPT ![w] = RetryDelay(args[w].coarse_poll_s)]
  /\ pc' = [pc EXCEPT ![w] = "loop"]
  /\ snap_now' = [snap_now EXCEPT ![w] = 0]
  /\ failed_ago' = [failed_ago EXCEPT ![w] = 0]

\* Top of the while loop: the stop latch, the sleep slice, and the start of
\* compute_wake_time up to the call of get_eta_seconds.
WorkerLoop(w) ==
  /\ pc[w] = "loop"
  /\ IF stop_program_event
       THEN \* the loop ends
            /\ LeaveLoop(w, "finally")
            /\ NoLog
       ELSE IF next_poll_at[w] > 0
         THEN \* time.sleep(min(0.2, next_poll_at - now)); continue
              /\ NoLog
              /\ UNCHANGED << pc, arrival, next_poll_at, snap_now, wake_now,
                              failed_ago, last_eta >>
         ELSE IF ~args[w].arrival_ok
           THEN \* _parse_arrival raises ValueError
                /\ PollFailed(w)
                /\ UNCHANGED << arrival, wake_now, last_eta >>
           ELSE /\ pc' = [pc EXCEPT ![w] = "fetch"]
                /\ snap_now' = [snap_now EXCEPT ![w] = 0]
                /\ NoLog
                /\ UNCHANGED << arrival, next_poll_at, wake_now, failed_ago,
                                last_eta >>
  /\ UNCHANGED << main_vars, current_alarm_proc, alive, after_queue >>
  /\ UNCHANGED << args, target_dt, i >>
  /\ UNCHANGED << stop_issued, alarm_stopped, episodes, played, ended_by >>
  /\ UNCHANGED call

\* get_eta_seconds raises.
FetchFails(w) ==
  /\ pc[w] = "fetch"
  /\ PollFailed(w)
  /\ UNCHANGED << main_vars, current_alarm_proc, alive, after_queue >>
  /\ UNCHANGED << args, arrival, target_dt, wake_now, i >>
  /\ UNCHANGED << stop_issued, alarm_stopped, episodes, played, ended_by, last_eta >>
  /\ UNCHANGED call

\* get_eta_seconds returns eta_s: the snapshot and its log line.
FetchReturns(w, eta_s) ==
  /\ pc[w] = "fetch"
  /\ LET a == args[w]
         info == compute_wake_time(arrival[w], a.prep_min, a.buffer_min, eta_s,
                                   snap_now[w])
     IN  /\ wake_now' = [wake_now EXCEPT ![w] = info.wake_now]
         /\ target_dt' = [target_dt EXCEPT ![w] = Max(0, info.wake_time)]
  /\ Log(<< "ETA" >>)
  /\ pc' = [pc EXCEPT ![w] = "decide"]
  /\ snap_now' = [snap_now EXCEPT ![w] = 0]
  /\ UNCHANGED << main_vars, current_alarm_proc, alive, after_queue >>
  /\ failed_ago' = [failed_ago EXCEPT ![w] = -1]
  /\ UNCHANGED << args, arrival, next_poll_at, i >>
  /\ UNCHANGED << stop_issued, alarm_stopped, episodes, played, ended_by >>
  /\ last_eta' = [last_eta EXCEPT ![w] = eta_s]
  /\ UNCHANGED call

\* The worker reads the clock itself: the alarm, or the next sleep.
Decide(w) ==
  /\ pc[w] = "decide"
  /\ LET a == args[w]
         now_dt == 0
         rem == target_dt[w] - now_dt
         sleep_s == NextSleep(rem, a.coarse_poll_s, a.fine_poll_s,
                              a.fine_window_min)
     IN  IF WakeReached(now_dt, target_dt[w])
           THEN /\ Log(<< "Triggering alarm." >>)
                /\ After(<< ToRinging(w) >>)
                /\ LeaveLoop(w, "ring")
                /\ episodes' = [episodes EXCEPT ![w] = @ + 1]
                /\ UNCHANGED target_dt
           ELSE /\ Log(<< "Next poll" >>)
                /\ next_poll_at' = [next_poll_at EXCEPT ![w] = sleep_s]
                /\ pc' = [pc EXCEPT ![w] = "loop"]
                /\ target_dt' = [target_dt EXCEPT ![w] = 0]
                /\ wake_now' = [wake_now EXCEPT ![w] = FALSE]
                /\ UNCHANGED << after_queue, episodes, arrival, snap_now,
                                failed_ago, last_eta >>
  /\ UNCHANGED << main_vars, current_alarm_proc, alive >>
  /\ UNCHANGED << args, i >>
  /\ UNCHANGED << stop_issued, alarm_stopped, played, ended_by >>
  /\ UNCHANGED call

\* _ring_alarm_gui: the sound file test.
RingAlarm(w) ==
  /\ pc[w] = "ring"
  /\ IF ~args[w].sound_ok
       THEN /\ Log(<< "No valid sound file" >>)
            /\ After(<< ToIdle(w) >>)
            /\ pc' = [pc EXCEPT ![w] = "finally"]
            /\ ended_by' = [ended_by EXCEPT ![w] = "nosound"]
            /\ UNCHANGED i
       ELSE /\ i' = [i EXCEPT ![w] = 0]
            /\ pc' = [pc EXCEPT ![w] = "rep"]
            /\ NoLog
            /\ UNCHANGED << after_queue, ended_by >>
  /\ UNCHANGED << main_vars, current_alarm_proc, alive >>
  /\ UNCHANGED << args, arrival, next_poll_at, snap_now, target_dt, wake_now >>
  /\ UNCHANGED << stop_issued, alarm_stopped, failed_ago, episodes, played,
                  last_eta >>
  /\ UNCHANGED call

\* Top of the for loop: the budget, the stop latch, then Popen.
Repetition(w, popen) ==
  /\ pc[w] = "rep"
  /\ IF i[w] >= repeats
       THEN /\ popen = "ok"
            /\ pc' = [pc EXCEPT ![w] = "end"]
            /\ ended_by' = [ended_by EXCEPT ![w] = "exhausted"]
            /\ NoLog
            /\ UNCHANGED << current_alarm_proc, alive, played >>
       ELSE IF stop_alarm_event
         THEN /\ popen = "ok"
              /\ pc' = [pc EXCEPT ![w] = "end"]
              /\ ended_by' = [ended_by EXCEPT ![w] = "stopped"]
              /\ NoLog
              /\ UNCHANGED << current_alarm_proc, alive, played >>
         ELSE IF popen = "ok"
           THEN /\ alive' = alive \cup {<< w, i[w] >>}
                /\ current_alarm_proc' = << w, i[w] >>
                /\ Log(<< "Alarm #" >>)
                /\ played' = [played EXCEPT ![w] = @ + 1]
                /\ pc' = [pc EXCEPT ![w] = "play"]
                /\ UNCHANGED ended_by
           ELSE \* FileNotFoundError or another exception: log, break
                /\ Log(<< popen >>)
                /\ pc' = [pc EXCEPT ![w] = "end"]
                /\ ended_by' = [ended_by EXCEPT ![w] = "error"]
                /\ UNCHANGED << current_alarm_proc, alive, played >>
  /\ UNCHANGED << main_vars, after_queue >>
  /\ UNCHANGED << args, arrival, next_poll_at, snap_now, target_dt, wake_now, i >>
  /\ UNCHANGED << stop_issued, alarm_stopped, failed_ago, episodes, last_eta >>
  /\ UNCHANGED call

\* while proc.poll() is None: the stop latch, else time.sleep(0.05).
Playing(w) ==
  /\ pc[w] = "play"
  /\ IF << w, i[w] >> \notin alive
       THEN \* the playback is over: next repetition
            /\ i' = [i EXCEPT ![w] = @ + 1]
            /\ pc' = [pc EXCEPT ![w] = "rep"]
            /\ UNCHANGED alive
       ELSE IF stop_alarm_event
         THEN \* terminate, break out of the while: next repetition
              /\ alive' = Terminate(alive, << w, i[w] >>)
              /\ i' = [i EXCEPT ![w] = @ + 1]
              /\ pc' = [pc EXCEPT ![w] = "rep"]
         ELSE UNCHANGED << alive, i, pc >>
  /\ NoLog
  /\ UNCHANGED << main_vars, current_alarm_proc, after_queue >>
  /\ UNCHANGED << args, arrival, next_poll_at, snap_now, target_dt, wake_now >>
  /\ UNCHANGED history_vars
  /\ UNCHANGED call

\* After the for loop: forget the process, queue the return to Idle, return.
EpisodeEnds(w) ==
  /\ pc[w] = "end"
  /\ current_alarm_proc' = NoProc
  /\ After(<< ToIdle(w) >>)
  /\ pc' = [pc EXCEPT ![w] = "finally"]
  /\ i' = [i EXCEPT ![w] = 0]
  /\ NoLog
  /\ UNCHANGED << main_vars, alive >>
  /\ UNCHANGED << args, arrival, next_poll_at, snap_now, target_dt, wake_now >>
  /\ UNCHANGED history_vars
  /\ UNCHANGED call

\* The finally clause of _run_worker; the thread ends and its frame is gone.
WorkerFinally(w) ==
  /\ pc[w] = "finally"
  /\ IF state_var # "Ringing"
       THEN After(<< ToIdle(w) >>)
       ELSE UNCHANGED after_queue
  /\ NoLog
  /\ pc' = [pc EXCEPT ![w] = "done"]
  /\ args' = [args EXCEPT ![w] = BaseConfig]
  /\ target_dt' = [target_dt EXCEPT ![w] = 0]
  /\ stop_issued' = [stop_issued EXCEPT ![w] = FALSE]
  /\ alarm_stopped' = [alarm_stopped EXCEPT ![w] = FALSE]
  /\ episodes' = [episodes EXCEPT ![w] = 0]
  /\ played' = [played EXCEPT ![w] = 0]
  /\ ended_by' = [ended_by EXCEPT ![w] = "none"]
  /\ UNCHANGED << main_vars, current_alarm_proc, alive >>
  /\ UNCHANGED << arrival, next_poll_at, snap_now, wake_now, i, failed_ago,
                  last_eta >>
  /\ UNCHANGED call

PopenOutcomes == {"ok", "'afplay' not found", "Failed to play alarm sound"}

WorkerStep(w) ==
  \/ WorkerLoop(w)
  \/ FetchFails(w)
  \/ \E eta_s \in ETAs : FetchReturns(w, eta_s)
  \/ Decide(w)
  \/ RingAlarm(w)
  \/ \E popen \in PopenOutcomes : Repetition(w, popen)
  \/ Playing(w)
  \/ EpisodeEnds(w)
  \/ WorkerFinally(w)

\* ------------------------------------------------------------- specification

Next ==
  \/ \E cfg \in Configs : StartProgram(cfg)
  \/ StopProgram
  \/ StopAlarm
  \/ AfterCallback
  \/ Tick
  \/ \E proc \in alive : PlaybackEnds(proc)
  \/ \E w \in Workers : WorkerStep(w)

Spec == Init /\ [][Next]_vars

\* Scheduling: time passes, the Tk main loop runs its callbacks, every thread
\* that can take a step eventually does, and a playback comes to its end.
\* The button is pressed or not, and a fetch answers or fails, as they will.
FairSpec ==
  /\ Spec
  /\ WF_vars(Tick)
  /\ WF_vars(AfterCallback)
  /\ WF_vars(\E proc \in alive : PlaybackEnds(proc))
  /\ \A w \in Workers : WF_vars(WorkerStep(w))

\* The Tk main loop alone: it runs every callback queued with after(0, ...).
MainLoopSpec == Spec /\ WF_vars(AfterCallback)

\* ------------------------------------------------------------- the functions

program_vars == << main_vars, current_alarm_proc, alive, after_queue, logged,
                   worker_vars, history_vars >>

\* Deadlines: 04:30 and 15:30 (+03:00) of the day summer time begins.
ArrivalIsos == { << 16200, EEST >>, << 55800, EEST >> }
EtaSeconds == {0, 3600}
PrepMinutes == {0, 15, 60}
BufferMinutes == {0, 60}
\* Clock readings of the poll: 01:30 and 13:15.
NowWalls == {5400, 47700}

WakeCalls ==
  { [fn |-> "compute_wake_time",
     args |-> [arrival_iso |-> a, prep_min |-> p, buffer_min |-> b,
               eta_s |-> e, now |-> n],
     returned |-> FALSE, result |-> << >>] :
      a \in ArrivalIsos, p \in PrepMinutes, b \in BufferMinutes,
      e \in EtaSeconds, n \in NowWalls }

Remainings == (0 .. MaxRemaining) \cup {600, 1800, 1801}
CoarsePolls == {5, 60, 180}
FinePolls == {1, 5, 15, 20, 60}
FineWindows == {0, 1, 2, 30}

SleepCalls ==
  { [fn |-> "sleep_s",
     args |-> [remaining |-> r, coarse_poll_s |-> c, fine_poll_s |-> f,
               fine_window_min |-> m],
     returned |-> FALSE, result |-> << >>] :
      r \in Remainings, c \in CoarsePolls, f \in FinePolls, m \in FineWindows }

FunctionInit ==
  /\ IdleProgram
  /\ call \in WakeCalls \cup SleepCalls

\* compute_wake_time returns its dictionary: the datetimes as ISO strings.
ComputeWakeTime ==
  /\ call.fn = "compute_wake_time"
  /\ ~call.returned
  /\ LET a == call.args
         info == compute_wake_time(parse_arrival(a.arrival_iso), a.prep_min,
                                   a.buffer_min, a.eta_s, a.now)
     IN  call' = [call EXCEPT
                    !.returned = TRUE,
                    !.result = [ now |-> isoformat(info.now),
                                 arrival |-> isoformat(info.arrival),
                                 eta_seconds |-> info.eta_seconds,
                                 depart_latest |-> isoformat(info.depart_latest),
                                 wake_time |-> isoformat(info.wake_time),
                                 wake_now |-> info.wake_now ]]
  /\ UNCHANGED program_vars

\* The worker chooses its sleep for the remaining seconds.
ChooseSleep ==
  /\ call.fn = "sleep_s"
  /\ ~call.returned
  /\ LET a == call.args
     IN  call' = [call EXCEPT
                    !.returned = TRUE,
                    !.result = NextSleep(a.remaining, a.coarse_poll_s,
                                         a.fine_poll_s, a.fine_window_min)]
  /\ UNCHANGED program_vars

FunctionNext ==
  \/ ComputeWakeTime
  \/ ChooseSleep

FunctionSpec == FunctionInit /\ [][FunctionNext]_vars

\* ------------------------------------------------------------- claims

\* A worker execution is active from its start until it has returned from its
\* loop or its alarm episode.
WorkerActive(w) == pc[w] \in {"loop", "fetch", "decide", "ring", "rep", "play", "end"}
ActiveWorkers == {w \in Workers : WorkerActive(w)}

\* An execution is inside the alarm repetition loop.
InRepetitionLoop(w) == pc[w] \in {"rep", "play"}

\* C1: at most one worker execution is active at any time; a start issued
\* while an earlier worker is still active creates no second active worker.
C1_AtMostOneWorker == Cardinality(ActiveWorkers) <= 1

\* C2: at most one alarm episode is active at any time: never two executions
\* inside the alarm repetition loop, never two playbacks of different episodes.
C2_AtMostOneEpisode ==
  /\ Cardinality({w \in Workers : InRepetitionLoop(w)}) <= 1
  /\ \A p, q \in alive : p[1] = q[1]

\* C3: every change of the program state follows the transition table with
\* its trigger: Idle to Running by start; Running to Ringing when the run in
\* progress reaches its wake time; Running to Idle by stop-program; Ringing to
\* Idle by stop-alarm or by the end of the alarm episode.  Never Idle to
\* Ringing, and never to Idle by the ending of a different run.
ByButton == presses' = presses + 1
ByCallbackOf(w) ==
  /\ after_queue # << >>
  /\ after_queue' = Tail(after_queue)
  /\ Head(after_queue).by = w
  /\ presses' = presses
C3_StepAllowed ==
  \/ state_var' = state_var
  \/ /\ state_var = "Idle" /\ state_var' = "Running"
     /\ ByButton /\ worker_thread' = worker_thread + 1
  \/ /\ state_var = "Running" /\ state_var' = "Ringing"
     /\ ByCallbackOf(worker_thread)
  \/ /\ state_var = "Running" /\ state_var' = "Idle"
     /\ ByButton /\ stop_program_event'
  \/ /\ state_var = "Ringing" /\ state_var' = "Idle"
     /\ \/ ByButton /\ stop_alarm_event'
        \/ ByCallbackOf(worker_thread)
C3_TransitionTable == [][C3_StepAllowed]_vars

\* C4: once stop-program has been issued for a run, the worker of that run
\* eventually exits its loop, whatever commands are issued afterwards.
ExitedLoop(w) == pc[w] \in {"finally", "done"}
C4_StopReachesWorker ==
  \A w \in Workers : (stop_issued[w] /\ Polling(w)) ~> ExitedLoop(w)

\* C5: within one run the worker starts an alarm episode at most once, only on
\* a poll whose freshly computed wake time is not after the current time, and
\* it polls no more after the episode.
C5_StartsEpisode(w) == episodes'[w] > episodes[w]
C5_RingsOnceWhenDue ==
  /\ [](\A w \in Workers :
          /\ episodes[w] <= 1
          /\ episodes[w] >= 1 => ~Polling(w))
  /\ [][\A w \in Workers :
          C5_StartsEpisode(w) => pc[w] = "decide" /\ target_dt[w] <= 0]_vars
C5_Witness ==
  \E w \in Workers : episodes[w] = 1 /\ pc[w] = "finally"

\* C6: a failed ETA fetch does not abort the run: the worker logs an error
\* line, the program state is unchanged, and the worker's next fetch comes no
\* sooner than max(15, coarse_poll) seconds after the failure.
C6_FetchFailed(w) == pc[w] = "fetch" /\ pc'[w] \notin {"fetch", "decide"}
C6_FailureRetriesLater ==
  /\ [][\A w \in Workers :
          C6_FetchFailed(w) =>
            /\ pc'[w] = "loop"
            /\ logged' = << "API error" >>
            /\ state_var' = state_var]_vars
  /\ [](\A w \in Workers :
          (pc[w] = "fetch" /\ failed_ago[w] >= 0) =>
            failed_ago[w] >= Max(15, args[w].coarse_poll_s))
C6_Witness ==
  \E w \in Workers :
    pc[w] = "fetch" /\ failed_ago[w] >= 15 /\ state_var = "Running"

\* C7: with an arrival deadline that cannot be parsed, or an invalid number,
\* start fails at once: no worker runs with that configuration.
C7_InvalidInputNeverRuns ==
  \A w \in Workers :
    pc[w] \notin {"none", "done"} =>
      args[w].arrival_ok /\ args[w].numbers_ok /\ args[w].required_ok

\* C8: once stop-alarm has been issued during an alarm episode, that episode
\* starts no further repetition, whatever commands follow.
C8_NoRepetitionAfterStop ==
  [][\A w \in Workers : alarm_stopped[w] => played'[w] <= played[w]]_vars

\* C9: when an alarm episode returns, by exhaustion, by stop-alarm or by a
\* playback error, no playback process it started is still running, the return
\* to Idle is queued for the main loop, and running it makes the state Idle.
C9_EpisodeReturns(w) == InEpisode(w) /\ pc'[w] = "finally"
C9_RunsCallback == after_queue # << >> /\ after_queue' = Tail(after_queue)
C9_EpisodeLeavesNothing ==
  /\ [][\A w \in Workers :
          C9_EpisodeReturns(w) =>
            /\ \A p \in alive' : p[1] # w
            /\ after_queue' # << >>
            /\ after_queue'[Len(after_queue')] =
                 [by |-> w, state |-> "Idle", button |-> "Run Program"]]_vars
  /\ [][C9_RunsCallback => state_var' = Head(after_queue).state]_vars
  /\ (\E k \in DOMAIN after_queue : after_queue[k].state = "Idle")
       ~> (state_var = "Idle")
C9_Witness ==
  \E w \in Workers :
    pc[w] = "finally" /\ episodes[w] = 1 /\ ended_by[w] = "stopped" /\ played[w] >= 1

\* C10: an alarm episode starts at most 10 playbacks, one after another; unless
\* it saw the stop latch set or a playback failed to start, it starts exactly
\* 10 and then ends.
C10_TenPlaybacks ==
  \A w \in Workers :
    /\ played[w] <= 10
    /\ Cardinality({p \in alive : p[1] = w}) <= 1
    /\ (pc[w] = "end" /\ ended_by[w] \notin {"stopped", "error"}) => played[w] = 10
C10_Witness ==
  \E w \in Workers : pc[w] = "end" /\ ended_by[w] = "exhausted" /\ played[w] = 10

\* A returned call of compute_wake_time, and one of the sleep rule.
WakeTimeReturned == call.fn = "compute_wake_time" /\ call.returned
SleepReturned == call.fn = "sleep_s" /\ call.returned
InFineWindow == call.args.remaining <= call.args.fine_window_min * 60

\* C11: for all non-negative eta_seconds, prep_minutes and buffer_minutes the
\* snapshot's depart_latest is the instant eta_seconds + buffer_minutes*60
\* seconds before the arrival deadline, and its wake_time the instant
\* prep_minutes*60 seconds before that, exactly.
C11_WakeTimeExact ==
  WakeTimeReturned =>
    LET a == call.args
        lead == a.eta_s + a.buffer_min * 60
    IN  /\ Instant(call.result.depart_latest) = Instant(a.arrival_iso) - lead
        /\ Instant(call.result.wake_time) =
             Instant(a.arrival_iso) - lead - a.prep_min * 60

\* C12: for every remaining_seconds above fine_window_minutes*60 the sleep
\* before the next poll is max(15, coarse_poll), whatever fine_poll is.
C12_CoarseOutsideWindow ==
  (SleepReturned /\ ~InFineWindow) =>
    call.result = Max(15, call.args.coarse_poll_s)
C12_Witness ==
  /\ SleepReturned /\ ~InFineWindow
  /\ call.args.coarse_poll_s < 15 /\ call.args.fine_poll_s > 15
  /\ call.result = 15

\* C13: for every remaining_seconds of at most fine_window_minutes*60 and
\* every positive fine_poll the sleep before the next poll is at least 15 and
\* at most fine_poll.
C13_FineWithinBounds ==
  (SleepReturned /\ InFineWindow /\ call.args.fine_poll_s > 0) =>
    /\ 15 <= call.result
    /\ call.result <= call.args.fine_poll_s

\* C14: inside the fine window the sleep does not decrease as
\* remaining_seconds grows: no smaller remaining_seconds, with the same
\* configuration, gets a longer sleep.
C14_MonotoneInWindow ==
  (SleepReturned /\ InFineWindow) =>
    \A r1 \in 0 .. call.args.remaining :
      NextSleep(r1, call.args.coarse_poll_s, call.args.fine_poll_s,
                call.args.fine_window_min) <= call.result
C14_Witness ==
  /\ SleepReturned /\ InFineWindow
  /\ call.result > 15 /\ call.result < call.args.fine_poll_s
  /\ call.args.coarse_poll_s > call.result

\* C15: a second stop-alarm request right after the first, the first issued
\* in state Ringing, starts nothing and changes nothing further: the state
\* stays Idle, the latches, the worker thread and the playbacks stay as the
\* first request left them.
StopAlarmJustRan == logged = << "Alarm stopped." >>
C15_SecondRequestChangesNothing ==
  [][(StopAlarmJustRan /\ ByButton) =>
       /\ state_var' = "Idle"
       /\ stop_alarm_event' = stop_alarm_event
       /\ stop_program_event' = stop_program_event
       /\ worker_thread' = worker_thread
       /\ current_alarm_proc' = current_alarm_proc
       /\ alive' = alive
       /\ pc' = pc]_vars

\* C16: a poll emits the snapshot log line only when its wake time differs
\* from the wake time of the previous poll of the same run (the deadline and
\* the margins being those of the run, the wake time differs exactly when
\* the travel time does); the first poll of a run emits it.
PollReturns(w) == pc[w] = "fetch" /\ pc'[w] = "decide"
C16_LogsOnlyNewWakeTime ==
  [][\A w \in Workers :
       PollReturns(w) =>
         (logged' = << "ETA" >>
            <=> (last_eta[w] = -1 \/ last_eta'[w] # last_eta[w]))]_vars

\* C17: when the wake time is reached and no valid sound file is configured,
\* the episode starts no playback, emits a log line and has ended; the
\* return to Idle is queued behind the change to Ringing, and once it is
\* queued the state becomes Idle.
NoSoundReturn(w) == pc[w] = "ring" /\ ~args[w].sound_ok /\ pc'[w] # "ring"
C17_NoSoundEndsIdle ==
  /\ [][\A w \in Workers :
          NoSoundReturn(w) =>
            /\ pc'[w] = "finally"
            /\ logged' = << "No valid sound file" >>
            /\ played'[w] = 0
            /\ alive' = alive
            /\ after_queue' = after_queue \o
                 << [by |-> w, state |-> "Idle", button |-> "Run Program"] >>]_vars
  /\ [](\A w \in Workers :
          /\ ended_by[w] = "nosound" =>
                played[w] = 0 /\ \A proc \in alive : proc[1] # w
          /\ \A k \in DOMAIN after_queue :
                (after_queue[k].by = w /\ after_queue[k].state = "Ringing"
                   /\ ~InEpisode(w)) =>
                  \E j \in DOMAIN after_queue :
                    /\ j > k
                    /\ after_queue[j].by = w
                    /\ after_queue[j].state = "Idle")
  /\ \A w \in Workers :
       (\E k \in DOMAIN after_queue :
          after_queue[k] = [by |-> w, state |-> "Idle", button |-> "Run Program"])
         ~> (state_var = "Idle")
C17_Witness ==
  \E w \in Workers :
    /\ ended_by[w] = "nosound" /\ played[w] = 0
    /\ state_var = "Idle" /\ after_queue = << >> /\ presses = 1

\* C18: on every successful poll the worker rings exactly when the wake_now
\* of the poll's snapshot is true, and otherwise schedules a sleep.
WorkerDecides(w) == pc[w] = "decide" /\ pc'[w] # "decide"
C18_DecisionIsWakeNow ==
  [][\A w \in Workers :
       WorkerDecides(w) =>
         /\ wake_now[w] => (pc'[w] = "ring" /\ episodes'[w] = episodes[w] + 1)
         /\ ~wake_now[w] => (pc'[w] = "loop" /\ episodes'[w] = episodes[w])]_vars

\* C19: after stop-program has been issued for a run, the worker of that run
\* starts no alarm episode and queues no change to Ringing, and no callback
\* of it makes the state Ringing.
C19_NoRingAfterStop ==
  [][\A w \in Workers :
       stop_issued[w] =>
         /\ episodes'[w] <= episodes[w]
         /\ after_queue' # after_queue \o
              << [by |-> w, state |-> "Ringing", button |-> "Stop Alarm"] >>
         /\ ByCallbackOf(w) => state_var' # "Ringing"]_vars

\* C20: for remaining_seconds >= 0, fine_window_minutes >= 1, fine_poll >= 1
\* and coarse_poll <= fine_window_minutes*60, the sleep before the next poll
\* is at most max(15, remaining_seconds).
C20_Precondition ==
  /\ call.args.remaining >= 0
  /\ call.args.fine_window_min >= 1
  /\ call.args.fine_poll_s >= 1
  /\ call.args.coarse_poll_s <= call.args.fine_window_min * 60
C20_SleepWithinRemaining ==
  (SleepReturned /\ C20_Precondition) =>
    call.result <= Max(15, call.args.remaining)
C20_Witness ==
  /\ SleepReturned /\ C20_Precondition
  /\ ~InFineWindow
  /\ call.result > 15

\* C21: if stop-program is never issued and, from some point on, no ETA fetch
\* fails, then under fair scheduling, with time advancing, every worker that
\* is polling eventually starts its alarm episode: no run polls for ever
\* without ringing.
StopProgramJustRan == logged = << "Program stopped." >>
C21_RunEventuallyRings ==
  \A w \in Workers :
    ([]~StopProgramJustRan /\ <>[][~FetchFails(w)]_vars)
      => (Polling(w) ~> (pc[w] = "ring"))

====
